---- MODULE Spec2Model ----
(***************************************************************************)
(* Model of the layered CRUD sample "Onion Architecture/onion.py"          *)
(* (Database, Repositories, Services, Controllers) and of the Singleton    *)
(* Logger of "Design Patterns/Singleton/Singleton.py".                     *)
(*                                                                         *)
(* Every method is a pure operator from the Database value (and the        *)
(* argument) to a Result: the Database after the call, the returned value, *)
(* the exception that left the method (if any), the lines it printed and   *)
(* the calls it made to the layer below.  One action per public method     *)
(* applies the operator of the layer the client enters at.                 *)
(***************************************************************************)
EXTENDS Naturals, Sequences, FiniteSets

VARIABLES db, lastCall, Logger_instance, created, refs, stdout, threads

vars == <<db, lastCall, Logger_instance, created, refs, stdout, threads>>

onionVars == <<db, lastCall>>

loggerVars == <<Logger_instance, created, refs, stdout>>

(***************************************************************************)
(* Bounds                                                                  *)
(***************************************************************************)
\* entities held by the Database, all three lists together
MaxStored == 3

\* Logger() constructions
MaxConstructions == 3

\* lines printed by the Singleton script
MaxOut == 6

(***************************************************************************)
(* Entities.  ref is the identity of the Python object: the classes define *)
(* no __eq__, so list.remove and == compare objects by identity, whatever  *)
(* their attributes.                                                       *)
(***************************************************************************)
Student(ref, student_id, name, email) ==
    [ref |-> ref, student_id |-> student_id, name |-> name, email |-> email]

Course(ref, course_id, title, trainer_id) ==
    [ref |-> ref, course_id |-> course_id, title |-> title,
     trainer_id |-> trainer_id]

Trainer(ref, trainer_id, name, expertise) ==
    [ref |-> ref, trainer_id |-> trainer_id, name |-> name,
     expertise |-> expertise]

\* the objects the main program constructs
trainer1 == Trainer("trainer1", 1, "Mondol", "Python")

trainer2 == Trainer("trainer2", 2, "Ali", "Data Science")

course1 == Course("course1", 1, "Python Basics", trainer1.trainer_id)

course2 == Course("course2", 2, "Machine Learning", trainer2.trainer_id)

student1 == Student("student1", 1, "Rashed", "rashed@example.com")

student2 == Student("student2", 2, "Shuvo", "shuvo@example.com")

student3 == Student("student3", 1, "DuplicateRashed", "duplicate@example.com")

Kinds == {"students", "courses", "trainers"}

Entities(k) ==
    CASE k = "students" -> {student1, student2, student3}
      [] k = "courses" -> {course1, course2}
      [] k = "trainers" -> {trainer1, trainer2}

KeyOf(k, e) ==
    CASE k = "students" -> e.student_id
      [] k = "courses" -> e.course_id
      [] k = "trainers" -> e.trainer_id

Database == [students |-> <<>>, courses |-> <<>>, trainers |-> <<>>]

Stored(d) == Len(d.students) + Len(d.courses) + Len(d.trainers)

(***************************************************************************)
(* Python values and built-ins                                             *)
(***************************************************************************)
None == [tag |-> "None"]

Obj(e) == [tag |-> "entity", obj |-> e]

List(s) == [tag |-> "list", items |-> s]

NoError == "NoError"

ValueError == "ValueError"

\* list.append(x)
ListAppend(s, x) == Append(s, x)

Contains(s, x) == \E i \in 1 .. Len(s) : s[i] = x

IndexOf(s, x) ==
    CHOOSE i \in 1 .. Len(s) : s[i] = x /\ \A j \in 1 .. (i - 1) : s[j] # x

\* variant of list.remove: the last item equal to x goes
ListRemove_last(s, x) ==
    LET i == CHOOSE i \in 1 .. Len(s) :
                 s[i] = x /\ \A j \in (i + 1) .. Len(s) : s[j] # x
    IN  SubSeq(s, 1, i - 1) \o SubSeq(s, i + 1, Len(s))

\* list.remove(x) of a list that holds x: the first item equal to x goes
ListRemove(s, x) ==
    LET i == IndexOf(s, x)
    IN  SubSeq(s, 1, i - 1) \o SubSeq(s, i + 1, Len(s))

(***************************************************************************)
(* What a method call yields                                               *)
(***************************************************************************)
Result(d, ret, raised, out, calls) ==
    [db |-> d, ret |-> ret, raised |-> raised, out |-> out, calls |-> calls]

\* a printed trace line: "[layer] text" about entity kind k
Line(layer, text, k) == [layer |-> layer, text |-> text, kind |-> k]

\* a call from a method of layer `from` to method m of layer `to`
CallTo(from, to, m) == [from |-> from, to |-> to, method |-> m]

(***************************************************************************)
(* Infrastructure layer: StudentRepository, CourseRepository,              *)
(* TrainerRepository (the three classes are the same code on db.students,  *)
(* db.courses, db.trainers)                                                *)
(***************************************************************************)
\* variant of add: the Repository refuses a key that is already stored
Repository_add_unique(k, d, e) ==
    IF \E i \in 1 .. Len(d[k]) : KeyOf(k, d[k][i]) = KeyOf(k, e)
    THEN Result(d, None, NoError,
                <<Line("Repository", "Adding to database", k)>>, <<>>)
    ELSE Result([d EXCEPT ![k] = ListAppend(@, e)], None, NoError,
                <<Line("Repository", "Adding to database", k)>>, <<>>)

Repository_add(k, d, e) ==
    Result([d EXCEPT ![k] = ListAppend(@, e)], None, NoError,
           <<Line("Repository", "Adding to database", k)>>, <<>>)

\* variant of remove: removing a trainer also removes the courses that
\* refer to it
Repository_remove_cascading(k, d, e) ==
    IF Contains(d[k], e)
    THEN Result(IF k = "trainers"
                THEN [students |-> d.students,
                      courses |-> SelectSeq(d.courses,
                                            LAMBDA c : c.trainer_id # e.trainer_id),
                      trainers |-> ListRemove(d.trainers, e)]
                ELSE [d EXCEPT ![k] = ListRemove(@, e)],
                None, NoError,
                <<Line("Repository", "Removing from database", k)>>, <<>>)
    ELSE Result(d, None, ValueError,
                <<Line("Repository", "Removing from database", k)>>, <<>>)

\* variant of remove: the first entity with the key of e goes
Repository_remove_by_key(k, d, e) ==
    IF \E i \in 1 .. Len(d[k]) : KeyOf(k, d[k][i]) = KeyOf(k, e)
    THEN Result([d EXCEPT ![k] =
                    LET i == CHOOSE i \in 1 .. Len(@) :
                                 /\ KeyOf(k, @[i]) = KeyOf(k, e)
                                 /\ \A j \in 1 .. (i - 1) : KeyOf(k, @[j]) # KeyOf(k, e)
                    IN  SubSeq(@, 1, i - 1) \o SubSeq(@, i + 1, Len(@))],
                None, NoError,
                <<Line("Repository", "Removing from database", k)>>, <<>>)
    ELSE Result(d, None, ValueError,
                <<Line("Repository", "Removing from database", k)>>, <<>>)

Repository_remove(k, d, e) ==
    IF Contains(d[k], e)
    THEN Result([d EXCEPT ![k] = ListRemove(@, e)], None, NoError,
                <<Line("Repository", "Removing from database", k)>>, <<>>)
    ELSE Result(d, None, ValueError,
                <<Line("Repository", "Removing from database", k)>>, <<>>)

\* variant of update: a real find-by-key-and-replace
Repository_update_replacing(k, d, e) ==
    Result([d EXCEPT ![k] = [i \in 1 .. Len(@) |->
                                IF KeyOf(k, @[i]) = KeyOf(k, e) THEN e ELSE @[i]]],
           Obj(e), NoError,
           <<Line("Repository", "Updating in database (demo only)", k)>>, <<>>)

Repository_update(k, d, e) ==
    Result(d, Obj(e), NoError,
           <<Line("Repository", "Updating in database (demo only)", k)>>, <<>>)

Repository_get_all(k, d) ==
    Result(d, List(d[k]), NoError,
           <<Line("Repository", "Fetching all from database", k)>>, <<>>)

(***************************************************************************)
(* Service layer                                                           *)
(***************************************************************************)
\* the scan of StudentService.add_student: some existing student carries
\* the incoming student_id
HasStudentId(students, student) ==
    \E i \in 1 .. Len(students) : students[i].student_id = student.student_id

\* variant of StudentService.add_student: no scan for the student_id
StudentService_add_student_unchecked(d, student) ==
    LET a == Repository_add("students", d, student)
    IN  Result(a.db, None, a.raised,
               <<Line("Service", "Checking if student can be added", "students")>>
                 \o a.out
                 \o <<Line("Service", "Student added successfully.", "students")>>,
               <<CallTo("Service", "Repository", "add")>> \o a.calls)

\* variant of StudentService.add_student: the branch that reports the
\* duplicate does not return
StudentService_add_student_no_return(d, student) ==
    LET g == Repository_get_all("students", d)
        a == Repository_add("students", g.db, student)
        head == <<Line("Service", "Checking if student can be added", "students")>>
        fetch == <<CallTo("Service", "Repository", "get_all")>>
        found == IF HasStudentId(g.ret.items, student)
                 THEN <<Line("Service", "Error: Student ID already exists.", "students")>>
                 ELSE <<>>
    IN  Result(a.db, None, a.raised,
               head \o g.out \o found \o a.out
                 \o <<Line("Service", "Student added successfully.", "students")>>,
               fetch \o g.calls
                 \o <<CallTo("Service", "Repository", "add")>> \o a.calls)

StudentService_add_student(d, student) ==
    LET g == Repository_get_all("students", d)
        head == <<Line("Service", "Checking if student can be added", "students")>>
        fetch == <<CallTo("Service", "Repository", "get_all")>>
    IN  IF HasStudentId(g.ret.items, student)
        THEN Result(g.db, None, NoError,
                    head \o g.out
                      \o <<Line("Service", "Error: Student ID already exists.", "students")>>,
                    fetch \o g.calls)
        ELSE LET a == Repository_add("students", g.db, student)
             IN  Result(a.db, None, a.raised,
                        head \o g.out \o a.out
                          \o <<Line("Service", "Student added successfully.", "students")>>,
                        fetch \o g.calls
                          \o <<CallTo("Service", "Repository", "add")>> \o a.calls)

\* variant of add_course / add_trainer: the scan of add_student, on the key
\* of the kind
Service_forward_add_checked(k, d, e) ==
    LET g == Repository_get_all(k, d)
        a == Repository_add(k, g.db, e)
    IN  IF \E i \in 1 .. Len(g.ret.items) : KeyOf(k, g.ret.items[i]) = KeyOf(k, e)
        THEN Result(g.db, None, NoError,
                    <<Line("Service", "Adding", k)>> \o g.out,
                    <<CallTo("Service", "Repository", "get_all")>> \o g.calls)
        ELSE Result(a.db, None, a.raised,
                    <<Line("Service", "Adding", k)>> \o g.out \o a.out,
                    <<CallTo("Service", "Repository", "get_all")>> \o g.calls
                      \o <<CallTo("Service", "Repository", "add")>> \o a.calls)

\* CourseService.add_course, TrainerService.add_trainer
Service_forward_add(k, d, e) ==
    LET a == Repository_add(k, d, e)
    IN  Result(a.db, None, a.raised,
               <<Line("Service", "Adding", k)>> \o a.out,
               <<CallTo("Service", "Repository", "add")>> \o a.calls)

Service_add(k, d, e) ==
    IF k = "students"
    THEN StudentService_add_student(d, e)
    ELSE Service_forward_add(k, d, e)

\* variant of remove: the Service catches the failure of the Repository
Service_remove_catching(k, d, e) ==
    LET r == Repository_remove(k, d, e)
    IN  Result(r.db, None, NoError,
               <<Line("Service", "Removing", k)>> \o r.out,
               <<CallTo("Service", "Repository", "remove")>> \o r.calls)

Service_remove(k, d, e) ==
    LET r == Repository_remove(k, d, e)
    IN  Result(r.db, None, r.raised,
               <<Line("Service", "Removing", k)>> \o r.out,
               <<CallTo("Service", "Repository", "remove")>> \o r.calls)

Service_update(k, d, e) ==
    LET r == Repository_update(k, d, e)
    IN  Result(r.db, r.ret, r.raised,
               <<Line("Service", "Updating", k)>> \o r.out,
               <<CallTo("Service", "Repository", "update")>> \o r.calls)

Service_get_all(k, d) ==
    LET r == Repository_get_all(k, d)
    IN  Result(r.db, r.ret, r.raised,
               <<Line("Service", "Retrieving all", k)>> \o r.out,
               <<CallTo("Service", "Repository", "get_all")>> \o r.calls)

(***************************************************************************)
(* Presentation layer: StudentController, CourseController,                *)
(* TrainerController                                                       *)
(***************************************************************************)
\* variant of add: the Controller goes to the Repository itself
Controller_add_bypassing(k, d, e) ==
    LET r == Repository_add(k, d, e)
    IN  Result(r.db, None, r.raised,
               <<Line("Controller", "Request received to add", k)>> \o r.out,
               <<CallTo("Controller", "Repository", "add")>> \o r.calls)

Controller_add(k, d, e) ==
    LET r == Service_add(k, d, e)
    IN  Result(r.db, None, r.raised,
               <<Line("Controller", "Request received to add", k)>> \o r.out,
               <<CallTo("Controller", "Service", "add")>> \o r.calls)

Controller_remove(k, d, e) ==
    LET r == Service_remove(k, d, e)
    IN  Result(r.db, None, r.raised,
               <<Line("Controller", "Request received to remove", k)>> \o r.out,
               <<CallTo("Controller", "Service", "remove")>> \o r.calls)

\* variant of update: the Controller drops what the Service returns
Controller_update_no_return(k, d, e) ==
    LET r == Service_update(k, d, e)
    IN  Result(r.db, None, r.raised,
               <<Line("Controller", "Request received to update", k)>> \o r.out,
               <<CallTo("Controller", "Service", "update")>> \o r.calls)

Controller_update(k, d, e) ==
    LET r == Service_update(k, d, e)
    IN  Result(r.db, r.ret, r.raised,
               <<Line("Controller", "Request received to update", k)>> \o r.out,
               <<CallTo("Controller", "Service", "update")>> \o r.calls)

Controller_get_all(k, d) ==
    LET r == Service_get_all(k, d)
    IN  Result(r.db, r.ret, r.raised,
               <<Line("Controller", "Request received to list", k)>> \o r.out,
               <<CallTo("Controller", "Service", "get_all")>> \o r.calls)

(***************************************************************************)
(* The client (the __main__ block, or any caller holding the objects the   *)
(* composition root built): it enters at a layer and calls one method.     *)
(***************************************************************************)
Layers == {"Controller", "Service", "Repository"}

Facade == {"Controller", "Service"}

Invoke_add(layer, k, d, e) ==
    CASE layer = "Controller" -> Controller_add(k, d, e)
      [] layer = "Service" -> Service_add(k, d, e)
      [] layer = "Repository" -> Repository_add(k, d, e)

Invoke_remove(layer, k, d, e) ==
    CASE layer = "Controller" -> Controller_remove(k, d, e)
      [] layer = "Service" -> Service_remove(k, d, e)
      [] layer = "Repository" -> Repository_remove(k, d, e)

Invoke_update(layer, k, d, e) ==
    CASE layer = "Controller" -> Controller_update(k, d, e)
      [] layer = "Service" -> Service_update(k, d, e)
      [] layer = "Repository" -> Repository_update(k, d, e)

Invoke_get_all(layer, k, d) ==
    CASE layer = "Controller" -> Controller_get_all(k, d)
      [] layer = "Service" -> Service_get_all(k, d)
      [] layer = "Repository" -> Repository_get_all(k, d)

\* the record of the call that was made last
Called(layer, m, k, arg, r) ==
    [layer |-> layer, method |-> m, kind |-> k, arg |-> arg,
     ret |-> r.ret, raised |-> r.raised, out |-> r.out,
     calls |-> <<CallTo("Client", layer, m)>> \o r.calls]

NoCall ==
    [layer |-> "Client", method |-> "none", kind |-> "none", arg |-> None,
     ret |-> None, raised |-> NoError, out |-> <<>>, calls |-> <<>>]

Apply(layer, m, k, arg, r) ==
    /\ Stored(r.db) <= MaxStored
    /\ db' = r.db
    /\ lastCall' = Called(layer, m, k, arg, r)
    /\ UNCHANGED <<loggerVars, threads>>

add(layer, k, e) == Apply(layer, "add", k, Obj(e), Invoke_add(layer, k, db, e))

remove(layer, k, e) ==
    Apply(layer, "remove", k, Obj(e), Invoke_remove(layer, k, db, e))

update(layer, k, e) ==
    Apply(layer, "update", k, Obj(e), Invoke_update(layer, k, db, e))

get_all(layer, k) ==
    Apply(layer, "get_all", k, None, Invoke_get_all(layer, k, db))

InitOnion ==
    /\ db = Database
    /\ lastCall = NoCall

InitLogger ==
    /\ Logger_instance = None
    /\ created = 0
    /\ refs = <<>>
    /\ stdout = <<>>

\* the callers of StudentService.add_student whose calls may overlap
Threads == {"caller1", "caller2"}

\* a caller that is not inside add_student
Idle == [pc |-> "idle", student |-> None, i |-> 0, outcome |-> "none"]

InitThreads == threads = [t \in Threads |-> Idle]

Init == InitOnion /\ InitLogger /\ InitThreads

\* calls entering at any layer
Next ==
    \E layer \in Layers, k \in Kinds :
        \/ \E e \in Entities(k) : add(layer, k, e)
        \/ \E e \in Entities(k) : remove(layer, k, e)
        \/ \E e \in Entities(k) : update(layer, k, e)
        \/ get_all(layer, k)

Spec == Init /\ [][Next]_vars

\* calls entering at a Controller or a Service only
NextFacade ==
    \E layer \in Facade, k \in Kinds :
        \/ \E e \in Entities(k) : add(layer, k, e)
        \/ \E e \in Entities(k) : remove(layer, k, e)
        \/ \E e \in Entities(k) : update(layer, k, e)
        \/ get_all(layer, k)

SpecFacade == Init /\ [][NextFacade]_vars

(***************************************************************************)
(* Singleton Logger (Design Patterns/Singleton/Singleton.py)               *)
(***************************************************************************)
\* the n-th object made by object.__new__(Logger)
LoggerObject(n) == [tag |-> "Logger", id |-> n]

Str(m) == [tag |-> "str", s |-> m]

\* the messages the script logs
Messages == {"First message", "Second message", "Third message", "Fourth message"}

Printed(text, value) == [text |-> text, value |-> value]

\* variant of Logger.__new__: no test of cls._instance (the class of
\* "Without Singleton.py")
Logger__new__always(inst, n) ==
    [instance |-> LoggerObject(n + 1), created |-> n + 1,
     ret |-> LoggerObject(n + 1),
     out |-> <<Printed("Class instance: ", inst),
               Printed("Object.__new__:", LoggerObject(n + 1)),
               Printed("Logger instance created", None)>>]

\* Logger.__new__ with cls._instance = inst, after n calls of
\* object.__new__: the new cls._instance, the count, the object returned
\* and the lines printed
Logger__new__(inst, n) ==
    IF inst = None
    THEN [instance |-> LoggerObject(n + 1), created |-> n + 1,
          ret |-> LoggerObject(n + 1),
          out |-> <<Printed("Class instance: ", inst),
                    Printed("Object.__new__:", LoggerObject(n + 1)),
                    Printed("Logger instance created", None)>>]
    ELSE [instance |-> inst, created |-> n, ret |-> inst,
          out |-> <<Printed("Class instance: ", inst)>>]

\* Logger.log(self, message)
Logger_log(self, message) == <<Printed("Log: ", Str(message))>>

\* logN = Logger()
Construct ==
    LET r == Logger__new__(Logger_instance, created)
    IN  /\ Len(refs) < MaxConstructions
        /\ Len(stdout) + Len(r.out) <= MaxOut
        /\ Logger_instance' = r.instance
        /\ created' = r.created
        /\ refs' = Append(refs, r.ret)
        /\ stdout' = stdout \o r.out
        /\ UNCHANGED <<onionVars, threads>>

\* logN.log(message)
Log(i, message) ==
    /\ Len(stdout) < MaxOut
    /\ stdout' = stdout \o Logger_log(refs[i], message)
    /\ UNCHANGED <<Logger_instance, created, refs>>
    /\ UNCHANGED <<onionVars, threads>>

NextLogger ==
    \/ Construct
    \/ \E i \in 1 .. Len(refs), message \in Messages : Log(i, message)

SpecLogger == Init /\ [][NextLogger]_vars

(***************************************************************************)
(* StudentService.add_student statement by statement, for calls that       *)
(* overlap: the for loop walks the list get_all_students returned, which   *)
(* is db.students itself, one item per step; the append is a later step.   *)
(***************************************************************************)
\* callers between the start of their scan and their append
InFlight == {t \in Threads : threads[t].pc \in {"scan", "append"}}

\* add_student(student) is entered: the check line is printed and the loop
\* starts at the first item
BeginAdd(t, student) ==
    /\ threads[t].pc = "idle"
    /\ Stored(db) + Cardinality(InFlight) < MaxStored
    /\ threads' = [threads EXCEPT ![t] =
                     [pc |-> "scan", student |-> student, i |-> 1, outcome |-> "none"]]
    /\ UNCHANGED <<onionVars, loggerVars>>

\* one turn of "for existing in ...: if existing.student_id == ..."
ScanStep(t) ==
    LET items == Repository_get_all("students", db).ret.items
        me == threads[t]
    IN  /\ me.pc = "scan"
        /\ threads' = [threads EXCEPT ![t] =
               IF me.i > Len(items)
               THEN [me EXCEPT !.pc = "append"]
               ELSE IF items[me.i].student_id = me.student.student_id
                    THEN [me EXCEPT !.pc = "done", !.outcome = "rejected"]
                    ELSE [me EXCEPT !.i = me.i + 1]]
        /\ UNCHANGED <<onionVars, loggerVars>>

\* self.student_repository.add_student(student), then the success line
AppendStep(t) ==
    /\ threads[t].pc = "append"
    /\ db' = Repository_add("students", db, threads[t].student).db
    /\ threads' = [threads EXCEPT ![t] = [@ EXCEPT !.pc = "done", !.outcome = "added"]]
    /\ UNCHANGED <<lastCall, loggerVars>>

\* the caller takes note of the return and is free to call again
Return(t) ==
    /\ threads[t].pc = "done"
    /\ threads' = [threads EXCEPT ![t] = Idle]
    /\ UNCHANGED <<onionVars, loggerVars>>

NextThreads ==
    \E t \in Threads :
        \/ \E student \in Entities("students") : BeginAdd(t, student)
        \/ ScanStep(t)
        \/ AppendStep(t)
        \/ Return(t)

SpecThreads == Init /\ [][NextThreads]_vars

(***************************************************************************)
(* Properties                                                              *)
(***************************************************************************)
\* the step is a call of method m on kind k entering at one of `layers`
Step(layers, m, k) ==
    /\ vars' # vars
    /\ lastCall'.layer \in layers
    /\ lastCall'.method = m
    /\ lastCall'.kind = k

\* the entity passed to the call of this step
Arg == lastCall'.arg.obj

UniqueStudentIds ==
    \A i, j \in 1 .. Len(db.students) :
        db.students[i].student_id = db.students[j].student_id => i = j

\* C1: with every call entering at a Controller or a Service, the students
\* list never holds two entities with one student_id, and an add_student
\* whose student_id is already stored leaves the list as it was.
C1_StudentIdsUnique ==
    /\ []UniqueStudentIds
    /\ [][Step(Facade, "add", "students") /\ HasStudentId(db.students, Arg)
            => db'.students = db.students]_vars

\* main's scenario: student3 (student_id 1) was offered while student1 and
\* student2 were stored, and the list still holds exactly those two
C1_Witness ==
    /\ lastCall.layer = "Controller"
    /\ lastCall.method = "add"
    /\ lastCall.arg = Obj(student3)
    /\ db.students = <<student1, student2>>

DuplicateKeyError == "DuplicateKeyError"

\* C2 as claimed: adding a Student whose student_id is already stored
\* surfaces a DuplicateKeyError to the caller of add_student and leaves the
\* store as it was.
C2_DuplicateKeyErrorSurfaced ==
    [][Step(Facade, "add", "students") /\ HasStudentId(db.students, Arg)
         => lastCall'.raised = DuplicateKeyError /\ db' = db]_vars

\* C2 as the code has it: adding a Student whose student_id is already
\* stored returns None without raising, as a successful add does; the
\* rejection is reported only by the printed line "[Service] Error: Student
\* ID already exists.", and the store is left as it was.
C2_DuplicateRejectedByPrint ==
    [][Step(Facade, "add", "students") /\ HasStudentId(db.students, Arg)
         => /\ lastCall'.raised = NoError
            /\ lastCall'.ret = None
            /\ lastCall'.out[Len(lastCall'.out)]
                 = Line("Service", "Error: Student ID already exists.", "students")
            /\ db' = db]_vars

\* a rejected add_student(student3) entering at the Service
C2_Witness ==
    /\ lastCall.layer = "Service"
    /\ lastCall.method = "add"
    /\ lastCall.arg = Obj(student3)
    /\ db.students = <<student1>>
    /\ lastCall.out[Len(lastCall.out)].text = "Error: Student ID already exists."

\* s without its first item equal to x
WithoutFirst(s, x) ==
    LET i == CHOOSE i \in 1 .. Len(s) : s[i] = x /\ \A j \in 1 .. (i - 1) : s[j] # x
    IN  [n \in 1 .. (Len(s) - 1) |-> IF n < i THEN s[n] ELSE s[n + 1]]

\* C3: for each kind, at every layer: an add either leaves the list alone
\* (rejected) or puts the entity at its end, so the list is in the order of
\* the successful adds; get_all returns that list; a remove that succeeds
\* takes out exactly the first item that is the entity and keeps the others
\* in their order.
C3_OrderPreserved ==
    [][\A k \in Kinds :
         /\ Step(Layers, "add", k)
              => db'[k] = db[k] \/ db'[k] = Append(db[k], Arg)
         /\ Step(Layers, "get_all", k)
              => lastCall'.ret = List(db[k]) /\ db' = db
         /\ Step(Layers, "remove", k) /\ lastCall'.raised = NoError
              => db'[k] = WithoutFirst(db[k], Arg)]_vars

\* trainer1 was removed from a list that held it twice around trainer2, or
\* twice after it: its first occurrence went
C3_Witness ==
    /\ lastCall.method = "remove"
    /\ lastCall.arg = Obj(trainer1)
    /\ lastCall.raised = NoError
    /\ db.trainers = <<trainer2, trainer1>>

NotFoundError == "NotFoundError"

\* C4 as claimed: remove, at any layer and for any kind, of an entity that
\* is not in its list reports NotFoundError to the caller and leaves the
\* list as it was.
C4_NotFoundErrorReported ==
    [][\A k \in Kinds :
         Step(Layers, "remove", k) /\ ~Contains(db[k], Arg)
           => lastCall'.raised = NotFoundError /\ db' = db]_vars

\* C4 as the code has it: the failure is the ValueError of list.remove,
\* which reaches the caller untranslated through Service and Controller;
\* the store is left as it was.
C4_RemoveAbsentRaisesValueError ==
    [][\A k \in Kinds :
         Step(Layers, "remove", k) /\ ~Contains(db[k], Arg)
           => lastCall'.raised = ValueError /\ db' = db]_vars

\* student3 was never added: its removal through the Controller failed
\* though student1, with the same student_id, is stored
C4_Witness ==
    /\ lastCall.layer = "Controller"
    /\ lastCall.method = "remove"
    /\ lastCall.arg = Obj(student3)
    /\ lastCall.raised = ValueError
    /\ db.students = <<student1>>

\* C5: update(e), at any layer and for any kind, e stored or not, returns e
\* and leaves all three lists as they were.
C5_UpdateIsNoOp ==
    [][\A k \in Kinds :
         Step(Layers, "update", k)
           => /\ lastCall'.ret = lastCall'.arg
              /\ lastCall'.raised = NoError
              /\ db' = db]_vars

\* update of student3, not stored, while student1 with the same student_id is
C5_Witness ==
    /\ lastCall.method = "update"
    /\ lastCall.layer = "Controller"
    /\ lastCall.arg = Obj(student3)
    /\ lastCall.ret = Obj(student3)
    /\ db.students = <<student1>>

\* what the same call yields when it is made on the Service
OnService(m, k, d, arg) ==
    CASE m = "add" -> Service_add(k, d, arg.obj)
      [] m = "remove" -> Service_remove(k, d, arg.obj)
      [] m = "update" -> Service_update(k, d, arg.obj)
      [] m = "get_all" -> Service_get_all(k, d)

\* C6: every call made on a Controller leaves the store in the state, and
\* gives the caller the value or the error, that the same call made on the
\* wrapped Service in the same state yields; so any sequence of calls does.
C6_ControllerForwards ==
    [][\A k \in Kinds, m \in {"add", "remove", "update", "get_all"} :
         Step({"Controller"}, m, k)
           => LET s == OnService(m, k, db, lastCall'.arg)
              IN  /\ db' = s.db
                  /\ lastCall'.ret = s.ret
                  /\ lastCall'.raised = s.raised]_vars

\* update of a stored course through the Controller handed the course back
C6_Witness ==
    /\ lastCall.layer = "Controller"
    /\ lastCall.method = "update"
    /\ lastCall.arg = Obj(course2)
    /\ lastCall.ret = Obj(course2)
    /\ db.courses = <<course1, course2>>

\* C7: add called on a Repository always appends and never fails, also
\* when the key is already stored: student_id is unique only as long as
\* every add_student goes through the Service.
C7_RepositoryAddUnconditional ==
    [][\A k \in Kinds :
         Step({"Repository"}, "add", k)
           => /\ db'[k] = Append(db[k], Arg)
              /\ lastCall'.raised = NoError
              /\ lastCall'.ret = None]_vars

\* StudentRepository.add_student(student3) with student1 stored: two stored
\* students with student_id 1
C7_Witness ==
    /\ lastCall.layer = "Repository"
    /\ lastCall.method = "add"
    /\ lastCall.arg = Obj(student3)
    /\ db.students = <<student1, student3>>
    /\ ~UniqueStudentIds

\* C8: add_course and add_trainer, on the Controller or the Service, put
\* the entity at the end of its list whatever its key.
C8_CourseTrainerAddUnchecked ==
    [][\A k \in {"courses", "trainers"} :
         Step(Facade, "add", k)
           => /\ db'[k] = Append(db[k], Arg)
              /\ Len(db'[k]) = Len(db[k]) + 1]_vars

\* course1 added a second time through the Controller
C8_Witness ==
    /\ lastCall.layer = "Controller"
    /\ lastCall.method = "add"
    /\ lastCall.arg = Obj(course1)
    /\ db.courses = <<course1, course1>>

\* C9: however many times Logger() is called, object.__new__ has made at
\* most one Logger, every call returned it, and Logger._instance, once
\* set, keeps its value.
C9_SingleLogger ==
    /\ [](/\ created <= 1
          /\ \A i \in 1 .. Len(refs) : refs[i] = Logger_instance /\ refs[i] # None
          /\ \A i, j \in 1 .. Len(refs) : refs[i] = refs[j])
    /\ [][Logger_instance # None => Logger_instance' = Logger_instance]_vars

\* log1 = Logger(); log2 = Logger(): log1 is log2
C9_Witness ==
    /\ Len(refs) >= 2
    /\ refs[1] = refs[2]
    /\ created = 1

Rank(layer) ==
    CASE layer = "Client" -> 0
      [] layer = "Controller" -> 1
      [] layer = "Service" -> 2
      [] layer = "Repository" -> 3

\* every call made inside a call goes from a layer to the layer right
\* below it, and the layers are entered in the order Controller, Service,
\* Repository
TopDown(c) ==
    /\ \A i \in 1 .. Len(c.calls) :
           c.calls[i].from # "Client" => Rank(c.calls[i].to) = Rank(c.calls[i].from) + 1
    /\ \A i, j \in 1 .. Len(c.calls) :
           i < j => Rank(c.calls[i].to) <= Rank(c.calls[j].to)

Invoked(c, layer, m) ==
    \E i \in 1 .. Len(c.calls) : c.calls[i].to = layer /\ c.calls[i].method = m

AddStudentPrefix ==
    <<Line("Controller", "Request received to add", "students"),
      Line("Service", "Checking if student can be added", "students"),
      Line("Repository", "Fetching all from database", "students")>>

\* C10: no call goes upward or skips a layer; add_student on the Controller
\* prints Controller-request, Service-check, Repository-fetch, and then
\* Repository-add and Service-success when no stored student has the
\* student_id, and otherwise Service-error, Repository.add_student not
\* being called.
C10_TopDownTrace ==
    /\ []TopDown(lastCall)
    /\ [][Step({"Controller"}, "add", "students")
            => IF ~HasStudentId(db.students, Arg)
               THEN /\ lastCall'.out = AddStudentPrefix \o
                         <<Line("Repository", "Adding to database", "students"),
                           Line("Service", "Student added successfully.", "students")>>
                    /\ Invoked(lastCall', "Repository", "add")
               ELSE /\ lastCall'.out = AddStudentPrefix \o
                         <<Line("Service", "Error: Student ID already exists.", "students")>>
                    /\ ~Invoked(lastCall', "Repository", "add")]_vars

\* the third add_student of main: rejected after the fetch
C10_Witness ==
    /\ lastCall.layer = "Controller"
    /\ lastCall.method = "add"
    /\ lastCall.arg = Obj(student3)
    /\ Len(lastCall.out) = 4
    /\ ~Invoked(lastCall, "Repository", "add")
    /\ db.students = <<student1, student2>>

\* C11: the scan and the append of add_student are separate steps: a
\* caller that has finished its scan appends whatever has been stored since,
\* so two overlapping calls with one student_id that both finish scanning
\* before either appends both append, and the list then holds two entities
\* with that student_id.
C11_CheckThenActRace ==
    /\ [][\A t \in Threads :
            threads[t].pc = "append" /\ threads'[t] # threads[t]
              => /\ threads'[t].pc = "done"
                 /\ threads'[t].outcome = "added"
                 /\ db'.students = Append(db.students, threads[t].student)]_vars
    /\ [](\A t, u \in Threads :
            /\ t # u
            /\ threads[t].pc = "done" /\ threads[t].outcome = "added"
            /\ threads[u].pc = "done" /\ threads[u].outcome = "added"
            /\ threads[t].student.student_id = threads[u].student.student_id
            => \E i, j \in 1 .. Len(db.students) :
                  /\ i # j
                  /\ db.students[i] = threads[t].student
                  /\ db.students[j] = threads[u].student)

\* student1 and student3 were both appended by overlapping calls
C11_Witness ==
    /\ threads["caller1"] = [pc |-> "done", student |-> student1, i |-> 1,
                             outcome |-> "added"]
    /\ threads["caller2"] = [pc |-> "done", student |-> student3, i |-> 1,
                             outcome |-> "added"]
    /\ db.students = <<student1, student3>>
    /\ ~UniqueStudentIds

Methods == {"add", "remove", "update", "get_all"}

\* C12: a call on one kind, at any layer, succeeding or failing, leaves the
\* lists of the other two kinds as they were; add of a Course whose
\* trainer_id is that of no stored Trainer succeeds and leaves db.trainers
\* as it was.
C12_CollectionsIndependent ==
    [][/\ \A k \in Kinds, m \in Methods :
            Step(Layers, m, k) => \A other \in Kinds \ {k} : db'[other] = db[other]
       /\ Step(Layers, "add", "courses")
            /\ (\A i \in 1 .. Len(db.trainers) : db.trainers[i].trainer_id # Arg.trainer_id)
            => /\ db'.courses = Append(db.courses, Arg)
               /\ lastCall'.raised = NoError
               /\ db'.trainers = db.trainers]_vars

\* course2 (trainer_id 2) was added through the Controller while trainer1
\* is the only Trainer stored
C12_Witness ==
    /\ lastCall.layer = "Controller"
    /\ lastCall.method = "add"
    /\ lastCall.arg = Obj(course2)
    /\ lastCall.raised = NoError
    /\ db.courses = <<course2>>
    /\ db.trainers = <<trainer1>>

====
